---- MODULE Spec2Model ----
(***************************************************************************)
(* Transactional order placement, product maintenance and the pending-     *)
(* order guard of the e-commerce backend.                                  *)
(*                                                                         *)
(* The store is PostgreSQL reached through GORM with no isolation level    *)
(* set, i.e. READ COMMITTED: a statement sees the rows committed before it *)
(* starts plus the writes of its own transaction; an UPDATE or DELETE of a *)
(* row waits while another transaction holds an uncommitted write of that  *)
(* row.  A transaction is modelled by its write set `tw` (the rows it has  *)
(* written and therefore locked); commit installs the write set, rollback  *)
(* drops it.  Prices are small integers (exact in float64).                *)
(*                                                                         *)
(* The in-memory rate limiter and the product-list cache share a clock     *)
(* `now` (the readings of time.Now, in whole ticks).  RateSpec runs the    *)
(* middleware alone, CacheSpec the cache alone, CatalogSpec the product    *)
(* and order services together with the cached List; Spec is the store     *)
(* protocol of the services without the cache.                             *)
(***************************************************************************)
EXTENDS Integers, Sequences, FiniteSets, TLC

\* ---------------------------------------------------------------- bounds
NumWorkers == 2
MaxProducts == 2
MaxStock == 2
MaxPrice == 2
MaxQty == 1
MaxItems == 2
MaxCalls == 3
NumUsers == 1
NumClients == 2
NumReqs == 2
MaxRequests == 4
Limit == 2
Window == 2
MaxTime == 2
NumKeys == 3
NumValues == 2
MaxEntries == 2
Ttl == 1
MaxLists == 1
NumListKeys == 1
NumBuyers == 2
MaxUsers == 2
NumEmails == 2
NumCallers == 2
MaxFiles == 5
MaxUploads == 3

Workers == 1..NumWorkers
ProductIds == 1..MaxProducts
Users == 1..NumUsers
Clients == 1..NumClients
Reqs == 1..NumReqs
Keys == 1..NumKeys
Values == 1..NumValues
ListKeys == 1..NumListKeys
Buyers == 1..NumBuyers
UserIds == 1..MaxUsers
Emails == 1..NumEmails
Callers == 1..NumCallers

VARIABLES products, orders, wk, last, nextPid, ncalls, stock0, written, deleted,
          now, requests, mutex, rq, admits, rejected, rlast, nreq,
          cache, cset, clast, ls, nlist,
          listed, users, nextUid, pr, ulast, images, up, nup

vars == <<products, orders, wk, last, nextPid, ncalls, stock0, written, deleted,
          now, requests, mutex, rq, admits, rejected, rlast, nreq,
          cache, cset, clast, ls, nlist,
          listed, users, nextUid, pr, ulast, images, up, nup>>

\* the store and the calls of the services
svars == <<products, orders, wk, last, nextPid, ncalls, stock0, written, deleted>>

\* the rate limiter: its map and mutex, the requests inside the middleware;
\* history only: admitted timestamps, rejections, the last decision, arrivals
rvars == <<requests, mutex, rq, admits, rejected, rlast, nreq>>

\* the cache: its map; history only: the latest Set that stored, the last call
cvars == <<cache, cset, clast>>

\* the List call in progress and the number of List calls so far
lvars == <<ls, nlist>>

\* the users table, the PromoteToAdmin calls in progress; history only: the
\* last call of the auth service
uvars == <<users, nextUid, pr, ulast>>

\* the product_images table (rows per product), the UploadImages calls in
\* progress and their number so far
ivars == <<images, up, nup>>

\* the answer of the last ListForUser, the accounts and the images
ext == <<listed, uvars, ivars>>

\* what the store operations never touch
env == <<now, rvars, cvars, lvars, ext>>

\* history only: initial stock, "an admin Update wrote the row", successful deletes
hist == <<stock0, written, deleted>>

\* ------------------------------------------------------------ data model
OrderStatusCompleted == "completed"

OrderStatusPending == "pending"

ErrEmptyOrder == "order must contain at least one item"
ErrQuantity == "quantity must be greater than zero"
ErrProductNotFound == "product not found"
ErrInsufficientStock == "insufficient stock"
ErrProductHasPendingOrders == "cannot delete product: product has pending orders"
ErrValidation == "validation"
ErrInfra == "infrastructure"
Ok == "ok"

\* a product row; exists = FALSE stands for "no such row"
NoProduct == [exists |-> FALSE, price |-> 0, stock |-> 0]

Product(price, stock) == [exists |-> TRUE, price |-> price, stock |-> stock]

OrderItemInput == [pid : ProductIds, qty : 0..MaxQty]

RECURSIVE SeqsUpTo(_, _)
SeqsUpTo(S, n) ==
    IF n = 0 THEN {<<>>}
    ELSE LET shorter == SeqsUpTo(S, n - 1)
         IN  shorter \cup {Append(s, x) : s \in {t \in shorter : Len(t) = n - 1}, x \in S}

CreateOrderInput == SeqsUpTo(OrderItemInput, MaxItems)

NoWrites == [p \in ProductIds |-> NoProduct]

\* UpdateProductInput: a nil pointer leaves the field alone
Nil == -9

UpdateProductInput == [price : (0..MaxPrice) \cup {Nil}, stock : (-1..MaxStock) \cup {Nil}]

\* a request that is not inside the rate-limit middleware
IdleReq == [pc |-> "idle", client |-> 0]

\* the last decision of the middleware: client, status, reading of the clock,
\* and whether the client had been rejected before
NoDecision == [client |-> 0, code |-> 0, t |-> 0, again |-> FALSE]

StatusTooManyRequests == 429

StatusOK == 200

\* entry{value, expiration}; present = FALSE stands for "no such key"
NoEntry == [present |-> FALSE, value |-> 0, expiration |-> 0]

\* the latest Set of a key that stored its value, and when
NoSet == [done |-> FALSE, value |-> 0, at |-> 0]

\* the last call of the cache: Set or Get, its key, what Get returned and at
\* which reading of the clock, whether Set skipped the insert
NoCacheCall ==
    [op |-> "none", key |-> 0, found |-> FALSE, value |-> 0, skipped |-> FALSE, t |-> 0]

\* the List call of the product service: not running
IdleList == [pc |-> "idle", key |-> 0, value |-> 0]

\* the answer of ListForUser: the user asked for, the error, the orders
NoListing == [user |-> 0, res |-> Ok, orders |-> <<>>]

RoleAdmin == "admin"

RoleUser == "user"

ErrUserNotFound == "user not found"
ErrEmailAlreadyExists == "email already exists"

\* a row of users; exists = FALSE stands for "no such row"
NoUser == [exists |-> FALSE, email |-> 0, role |-> RoleUser]

\* a PromoteToAdmin call that is not running
IdlePromote == [pc |-> "idle", id |-> 0]

\* RegisterInput.Role: absent, "user" or "admin"
RequestRoles == {"", RoleUser, RoleAdmin}

\* the last call of the auth service that returned: operation, user id,
\* result, whether the store failed in it, the role the request carried, the
\* role the user had before the last statement of the call, and that statement
NoAuthCall ==
    [op |-> "none", id |-> 0, res |-> Ok, fault |-> FALSE, role |-> "", prev |-> "",
     at |-> "none"]

\* an UploadImages call that is not running: product, number of files
IdleUpload == [pc |-> "idle", p |-> 0, files |-> 0]

\* an UpdateProductInput with every field nil
NoInput == [price |-> Nil, stock |-> Nil]

\* a request worker that is not inside a call
IdleWk ==
    [pc |-> "idle", op |-> "none", user |-> 0, items |-> <<>>, idx |-> 0,
     cur |-> NoProduct, tw |-> NoWrites, staged |-> <<>>, total |-> 0,
     p |-> 0, fault |-> FALSE, tx |-> FALSE, guard |-> FALSE,
     werr |-> Ok, ctx |-> "live", input |-> NoInput]

\* the summary of the call that returned most recently: operation, result,
\* whether the store failed in it, whether it called Execute, its product,
\* the number of line items requested and staged, where it returned from, what
\* the function run by Execute returned, and the state of the caller's context
NoCall ==
    [op |-> "none", res |-> Ok, fault |-> FALSE, tx |-> FALSE, p |-> 0,
     n |-> 0, k |-> 0, at |-> "idle", guard |-> FALSE, werr |-> Ok, ctx |-> "live"]

Summary(rec, res) ==
    [op |-> rec.op, res |-> res, fault |-> rec.fault, tx |-> rec.tx, p |-> rec.p,
     n |-> Len(rec.items), k |-> Len(rec.staged), at |-> rec.pc, guard |-> rec.guard,
     werr |-> rec.werr, ctx |-> rec.ctx]

\* ------------------------------------------------------------- repository
\* productRepository.GetByID on the connection of worker w: own writes first
GetByIDCommittedOnly(w, p) == products[p]

\* the same, answered from the cached product list when there is one
GetByIDCached(w, p) ==
    IF cache[1].present /\ (cache[1].value \div (2 ^ (p - 1))) % 2 = 0
    THEN NoProduct
    ELSE IF wk[w].tw[p].exists THEN wk[w].tw[p] ELSE products[p]

GetByID(w, p) ==
    IF wk[w].tw[p].exists THEN wk[w].tw[p] ELSE products[p]

\* a row is locked while some open transaction holds an uncommitted write
LockedByOther(w, p) ==
    \E v \in Workers : v # w /\ wk[v].tw[p].exists

HasPendingIgnoresStatus(ords, p) ==
    \E i \in 1..Len(ords) :
        /\ ords[i].status = "completed"
        /\ \E j \in 1..Len(ords[i].items) : ords[i].items[j].pid = p

HasPendingOrdersByProductID(ords, p) ==
    \E i \in 1..Len(ords) :
        /\ ords[i].status = OrderStatusPending
        /\ \E j \in 1..Len(ords[i].items) : ords[i].items[j].pid = p

\* gorm Transaction commit: the write set becomes the committed rows
Commit(prods, tw) ==
    [p \in ProductIds |-> IF tw[p].exists THEN tw[p] ELSE prods[p]]

\* gorm Transaction rollback: the committed rows stay as they are
RollbackKeepsWrites(prods, tw) == Commit(prods, tw)

Rollback(prods, tw) == prods

\* RowsAffected of an UPDATE or DELETE ... WHERE id = p
RowsAffectedAlwaysOne(prods, p) == 1

RowsAffected(prods, p) == IF prods[p].exists THEN 1 ELSE 0

\* some pending order has an item for p (what the guard is meant to detect)
PendingRef(ords, p) ==
    \E i \in 1..Len(ords) :
        /\ ords[i].status = "pending"
        /\ \E j \in 1..Len(ords[i].items) : ords[i].items[j].pid = p

Init ==
    /\ products = [p \in ProductIds |-> NoProduct]
    /\ orders = <<>>
    /\ wk = [w \in Workers |-> IdleWk]
    /\ last = NoCall
    /\ nextPid = 1
    /\ ncalls = 0
    /\ stock0 = [p \in ProductIds |-> 0]
    /\ written = [p \in ProductIds |-> FALSE]
    /\ deleted = [p \in ProductIds |-> 0]
    /\ now = 0
    /\ requests = [c \in Clients |-> <<>>]
    /\ mutex = 0
    /\ rq = [r \in Reqs |-> IdleReq]
    /\ admits = [c \in Clients |-> <<>>]
    /\ rejected = [c \in Clients |-> FALSE]
    /\ rlast = NoDecision
    /\ nreq = 0
    /\ cache = [k \in Keys |-> NoEntry]
    /\ cset = [k \in Keys |-> NoSet]
    /\ clast = NoCacheCall
    /\ ls = IdleList
    /\ nlist = 0
    /\ listed = NoListing
    /\ users = [id \in UserIds |-> NoUser]
    /\ nextUid = 1
    /\ pr = [a \in Callers |-> IdlePromote]
    /\ ulast = NoAuthCall
    /\ images = [p \in ProductIds |-> 0]
    /\ up = [a \in Callers |-> IdleUpload]
    /\ nup = 0

\* a call starts on the lowest free worker (workers are interchangeable)
CanStart(w) ==
    /\ wk[w].pc = "idle"
    /\ ncalls < MaxCalls
    /\ \A v \in Workers : v < w => wk[v].pc # "idle"

\* the call of worker w returns res; rec is its record at that point
Return(w, rec, res) ==
    /\ wk' = [wk EXCEPT ![w] = IdleWk]
    /\ last' = Summary(rec, res)

Faulted(rec) == [rec EXCEPT !.fault = TRUE]

\* productRepository.Update: SET of every column from the product passed in
UpdatesDropsStock(row, product) ==
    [row EXCEPT !.price = product.price]

Updates(row, product) ==
    [row EXCEPT !.price = product.price, !.stock = product.stock]

\* ------------------------------------------------- order service: Create
\* unitOfWork.Execute: what the call returns when fn returned err
ExecuteWrapsError(err) == IF err = Ok THEN Ok ELSE ErrInfra

Execute(err) == err

\* the context handed to Execute and to every repository call is done
CtxDoneIgnored(rec) == FALSE

CtxDone(rec) == rec.ctx = "done"

\* if product.Stock < item.Quantity
InsufficientStockOff(product, qty) == FALSE

InsufficientStock(product, qty) == product.stock < qty

\* unitOfWork.Execute when fn returns an error: rollback, the error is returned
Abort(w, rec, res) ==
    /\ products' = Rollback(products, rec.tw)
    /\ orders' = orders
    /\ Return(w, [rec EXCEPT !.werr = res], Execute(res))

\* the guard at the top of service.Create
EmptyOrderCheckOff(items) == FALSE

EmptyOrderCheck(items) == Len(items) = 0

\* for _, item := range input.Items: the next line item, or the order write
LoopPc(items, idx) ==
    IF idx > Len(items) THEN "order_write" ELSE "item_read"

\* itemTotal := product.Price * float64(item.Quantity)
itemTotalNoPrice(product, qty) == qty

itemTotal(product, qty) == product.price * qty

\* service.Create up to the call of Execute
OrderCreate(w, u, items) ==
    /\ CanStart(w)
    /\ ncalls' = ncalls + 1
    /\ LET rec == [IdleWk EXCEPT !.op = "order", !.user = u, !.items = items]
       IN  IF EmptyOrderCheck(items)
           THEN Return(w, rec, ErrEmptyOrder)
           ELSE /\ wk' = [wk EXCEPT ![w] =
                            [rec EXCEPT !.pc = LoopPc(items, 1), !.idx = 1, !.tx = TRUE]]
                /\ last' = last
    /\ UNCHANGED <<products, orders, nextPid, hist, env>>

\* if item.Quantity <= 0
InvalidQuantityOff(item) == FALSE

InvalidQuantity(item) == item.qty <= 0

\* the error text names the product of the line item (its id for a bad
\* quantity, its name for insufficient stock)
Named(rec, p) == [rec EXCEPT !.p = p]

\* one line item: quantity check, GetByID, stock check, local decrement
ItemRead(w) ==
    /\ wk[w].pc = "item_read"
    /\ LET rec == wk[w]
           item == rec.items[rec.idx]
           product == GetByID(w, item.pid)
       IN  \E fail \in BOOLEAN :
             IF InvalidQuantity(item) THEN Abort(w, Named(rec, item.pid), ErrQuantity)
             ELSE IF fail \/ CtxDone(rec) THEN Abort(w, Faulted(rec), ErrProductNotFound)
             ELSE IF ~product.exists THEN Abort(w, rec, ErrProductNotFound)
             ELSE IF InsufficientStock(product, item.qty)
                  THEN Abort(w, Named(rec, item.pid), ErrInsufficientStock)
             ELSE /\ wk' = [wk EXCEPT ![w] =
                              [rec EXCEPT !.pc = "item_write",
                                          !.cur = [product EXCEPT !.stock = @ - item.qty]]]
                  /\ UNCHANGED <<products, orders, last>>
    /\ UNCHANGED <<nextPid, ncalls, hist, env>>

\* the same line item: Products().Update, then the item is staged
ItemWrite(w) ==
    /\ wk[w].pc = "item_write"
    /\ LET rec == wk[w]
           item == rec.items[rec.idx]
           p == item.pid
       IN  \/ Abort(w, Faulted(rec), ErrInfra)
           \/ /\ ~CtxDone(rec)
              /\ ~LockedByOther(w, p)
              /\ IF ~GetByID(w, p).exists
                 THEN Abort(w, rec, ErrProductNotFound)
                 ELSE /\ wk' = [wk EXCEPT ![w] =
                                  [rec EXCEPT
                                     !.tw[p] = Updates(GetByID(w, p), rec.cur),
                                     !.staged = Append(@, [pid |-> p, qty |-> item.qty,
                                                           unitPrice |-> rec.cur.price]),
                                     !.total = @ + itemTotal(rec.cur, item.qty),
                                     !.cur = NoProduct,
                                     !.idx = @ + 1,
                                     !.pc = LoopPc(rec.items, rec.idx + 1)]]
                      /\ UNCHANGED <<products, orders, last>>
    /\ UNCHANGED <<nextPid, ncalls, hist, env>>

\* Orders().Create, the return of fn and the end of the transaction: the
\* insert fails (fn returns its error), or fn returns nil and the commit fails
\* (rollback, the commit error is returned), or the transaction commits
OrderWrite(w) ==
    /\ wk[w].pc = "order_write"
    /\ LET rec == wk[w]
       IN  \/ Abort(w, Faulted(rec), ErrInfra)
           \/ /\ products' = Rollback(products, rec.tw)
              /\ orders' = orders
              /\ Return(w, Faulted(rec), ErrInfra)
           \/ /\ ~CtxDone(rec)
              /\ products' = Commit(products, rec.tw)
              /\ orders' = Append(orders, [user |-> rec.user, status |-> OrderStatusPending,
                                           total |-> rec.total, items |-> rec.staged])
              /\ Return(w, rec, Execute(Ok))
    /\ UNCHANGED <<nextPid, ncalls, hist, env>>

\* the context of a Create that is inside Execute is cancelled or times out
CtxCancel(w) ==
    /\ wk[w].tx /\ wk[w].pc # "idle" /\ wk[w].ctx = "live"
    /\ wk' = [wk EXCEPT ![w].ctx = "done"]
    /\ UNCHANGED <<products, orders, last, nextPid, ncalls, hist, env>>

\* ------------------------------------------------------- product service
ProductCreate(price, stock) ==
    /\ ncalls < MaxCalls
    /\ nextPid <= MaxProducts
    /\ ncalls' = ncalls + 1
    /\ LET rec == [IdleWk EXCEPT !.op = "product_create", !.p = nextPid]
       IN  IF price <= 0 \/ stock < 0
           THEN /\ last' = Summary(rec, ErrValidation)
                /\ UNCHANGED <<products, nextPid, stock0>>
           ELSE /\ products' = [products EXCEPT ![nextPid] = Product(price, stock)]
                /\ stock0' = [stock0 EXCEPT ![nextPid] = stock]
                /\ nextPid' = nextPid + 1
                /\ last' = Summary(rec, Ok)
    /\ UNCHANGED <<orders, wk, written, deleted, env>>

applyUpdate(product, input) ==
    [product EXCEPT !.price = IF input.price # Nil THEN input.price ELSE @,
                    !.stock = IF input.stock # Nil THEN input.stock ELSE @]

\* service.Update up to repo.Update
ProductUpdate(w, p, input) ==
    /\ CanStart(w)
    /\ ncalls' = ncalls + 1
    /\ LET rec == [IdleWk EXCEPT !.op = "product_update", !.p = p]
       IN  \E fail \in BOOLEAN :
             IF fail THEN Return(w, Faulted(rec), ErrProductNotFound)
             ELSE IF ~products[p].exists THEN Return(w, rec, ErrProductNotFound)
             ELSE IF \/ (input.price # Nil /\ input.price <= 0)
                     \/ (input.stock # Nil /\ input.stock < 0)
                  THEN Return(w, rec, ErrValidation)
             ELSE /\ wk' = [wk EXCEPT ![w] =
                              [rec EXCEPT !.pc = "upd_write", !.input = input,
                                          !.cur = applyUpdate(products[p], input)]]
                  /\ last' = last
    /\ UNCHANGED <<products, orders, nextPid, hist, env>>

\* the persisted orders with every item of product p set to a unit price
Repriced(ords, p, price) ==
    [i \in 1..Len(ords) |->
        [ords[i] EXCEPT !.items =
            [j \in 1..Len(ords[i].items) |->
                IF ords[i].items[j].pid = p
                THEN [ords[i].items[j] EXCEPT !.unitPrice = price]
                ELSE ords[i].items[j]]]]

UpdWriteReprices(w) ==
    /\ wk[w].pc = "upd_write"
    /\ LET rec == wk[w]
           p == rec.p
       IN  \/ /\ Return(w, Faulted(rec), ErrInfra)
              /\ UNCHANGED <<products, written, orders>>
           \/ /\ ~LockedByOther(w, p)
              /\ IF RowsAffected(products, p) = 0
                 THEN /\ Return(w, rec, ErrProductNotFound)
                      /\ UNCHANGED <<products, written, orders>>
                 ELSE /\ products' = [products EXCEPT ![p] = Updates(@, rec.cur)]
                      /\ orders' = Repriced(orders, p, rec.cur.price)
                      /\ written' = [written EXCEPT ![p] = TRUE]
                      /\ Return(w, rec, Ok)
    /\ UNCHANGED <<nextPid, ncalls, stock0, deleted, env>>

\* service.Update: repo.Update
UpdWrite(w) ==
    /\ wk[w].pc = "upd_write"
    /\ LET rec == wk[w]
           p == rec.p
       IN  \/ /\ Return(w, Faulted(rec), ErrInfra)
              /\ UNCHANGED <<products, written>>
           \/ /\ ~LockedByOther(w, p)
              /\ IF RowsAffected(products, p) = 0
                 THEN /\ Return(w, rec, ErrProductNotFound)
                      /\ UNCHANGED <<products, written>>
                 ELSE /\ products' = [products EXCEPT ![p] = Updates(@, rec.cur)]
                      /\ written' = [written EXCEPT ![p] = TRUE]
                      /\ Return(w, rec, Ok)
    /\ UNCHANGED <<orders, nextPid, ncalls, stock0, deleted, env>>

\* service.Delete: the existence check
ProductDelete(w, p) ==
    /\ CanStart(w)
    /\ ncalls' = ncalls + 1
    /\ LET rec == [IdleWk EXCEPT !.op = "product_delete", !.p = p,
                                 !.guard = products[p].exists /\ PendingRef(orders, p)]
       IN  \E fail \in BOOLEAN :
             IF fail THEN Return(w, Faulted(rec), ErrProductNotFound)
             ELSE IF ~GetByID(w, p).exists THEN Return(w, rec, ErrProductNotFound)
             ELSE /\ wk' = [wk EXCEPT ![w] = [rec EXCEPT !.pc = "del_pending"]]
                  /\ last' = last
    /\ UNCHANGED <<products, orders, nextPid, hist, env>>

\* service.Delete: the pending-order check
DelPending(w) ==
    /\ wk[w].pc = "del_pending"
    /\ LET rec == wk[w]
       IN  \E fail \in BOOLEAN :
             IF fail THEN Return(w, Faulted(rec), ErrInfra)
             ELSE IF HasPendingOrdersByProductID(orders, rec.p)
                  THEN Return(w, rec, ErrProductHasPendingOrders)
             ELSE /\ wk' = [wk EXCEPT ![w] = [rec EXCEPT !.pc = "del_exec"]]
                  /\ last' = last
    /\ UNCHANGED <<products, orders, nextPid, ncalls, hist, env>>

\* service.Delete: repo.Delete
DelExec(w) ==
    /\ wk[w].pc = "del_exec"
    /\ LET rec == wk[w]
           p == rec.p
       IN  \/ /\ Return(w, Faulted(rec), ErrInfra)
              /\ UNCHANGED <<products, deleted>>
           \/ /\ ~LockedByOther(w, p)
              /\ IF RowsAffected(products, p) = 0
                 THEN /\ Return(w, rec, ErrProductNotFound)
                      /\ UNCHANGED <<products, deleted>>
                 ELSE /\ products' = [products EXCEPT ![p] = NoProduct]
                      /\ deleted' = [deleted EXCEPT ![p] = @ + 1]
                      /\ Return(w, rec, Ok)
    /\ UNCHANGED <<orders, nextPid, ncalls, stock0, written, env>>

Next ==
    \/ \E w \in Workers, u \in Users, items \in CreateOrderInput : OrderCreate(w, u, items)
    \/ \E w \in Workers : ItemRead(w)
    \/ \E w \in Workers : ItemWrite(w)
    \/ \E w \in Workers : OrderWrite(w)
    \/ \E w \in Workers : CtxCancel(w)
    \/ \E price \in 0..MaxPrice, stock \in -1..MaxStock : ProductCreate(price, stock)
    \/ \E w \in Workers, p \in ProductIds, input \in UpdateProductInput :
          ProductUpdate(w, p, input)
    \/ \E w \in Workers : UpdWrite(w)
    \/ \E w \in Workers, p \in ProductIds : ProductDelete(w, p)
    \/ \E w \in Workers : DelPending(w)
    \/ \E w \in Workers : DelExec(w)

Spec == Init /\ [][Next]_vars

\* calls run one at a time: no call starts while another is in progress
SerialNext ==
    /\ Next
    /\ \A w \in Workers : w > 1 => wk'[w].pc = "idle"

SerialSpec == Init /\ [][SerialNext]_vars

\* ------------------------------------------------------------------ clock
\* time passes
Tick ==
    /\ now < MaxTime
    /\ now' = now + 1
    /\ UNCHANGED <<svars, ext, rvars, cvars, lvars>>

\* ----------------------------------------------------------- rate limiter
\* reqTime.After(windowStart)
AfterAlways(t, u) == TRUE

After(t, u) == t > u

\* len(m.requests[clientIP]) >= m.limit
LimitExceededLate(n) == n > Limit

LimitExceeded(n) == n >= Limit

\* m.requests[clientIP] = ...: the slice of one client is replaced
StoreShared(reqs, clientIP, times) == [c \in Clients |-> times]

Store(reqs, clientIP, times) == [reqs EXCEPT ![clientIP] = times]

\* a request enters the middleware: clientIP := c.ClientIP(); it is about to
\* take the mutex (the lowest free request slot is used)
Arrive(r, clientIP) ==
    /\ rq[r].pc = "idle"
    /\ \A q \in Reqs : q < r => rq[q].pc # "idle"
    /\ nreq < MaxRequests
    /\ nreq' = nreq + 1
    /\ rq' = [rq EXCEPT ![r] = [pc |-> "lock", client |-> clientIP]]
    /\ UNCHANGED <<svars, ext, now, requests, mutex, admits, rejected, rlast, cvars, lvars>>

\* the body of the middleware up to c.Next(): Lock, the reading of the clock,
\* the old timestamps of the client dropped, then either the rejection (JSON
\* 429, c.Abort, return: the deferred Unlock runs) or the timestamp recorded;
\* Lock waits while another request holds the mutex
RateLimit(r) ==
    /\ rq[r].pc = "lock"
    /\ mutex = 0
    /\ LET clientIP == rq[r].client
           windowStart == now - Window
           validRequests == SelectSeq(requests[clientIP], LAMBDA t : After(t, windowStart))
       IN  IF LimitExceeded(Len(validRequests))
           THEN /\ requests' = Store(requests, clientIP, validRequests)
                /\ rejected' = [rejected EXCEPT ![clientIP] = TRUE]
                /\ rlast' = [client |-> clientIP, code |-> StatusTooManyRequests,
                             t |-> now, again |-> rejected[clientIP]]
                /\ rq' = [rq EXCEPT ![r] = IdleReq]
                /\ UNCHANGED <<mutex, admits>>
           ELSE /\ requests' = Store(requests, clientIP, Append(validRequests, now))
                /\ admits' = [admits EXCEPT ![clientIP] = Append(@, now)]
                /\ mutex' = r
                /\ rq' = [rq EXCEPT ![r] = [pc |-> "next", client |-> clientIP]]
                /\ rlast' = [client |-> clientIP, code |-> StatusOK,
                             t |-> now, again |-> rejected[clientIP]]
                /\ UNCHANGED rejected
    /\ UNCHANGED <<svars, ext, now, nreq, cvars, lvars>>

\* c.Next(): the rest of the chain (authentication, the handler and its
\* database work) runs inside the middleware function
HandlerNext(r) ==
    /\ rq[r].pc = "next"
    /\ rq' = [rq EXCEPT ![r].pc = "unlock"]
    /\ UNCHANGED <<svars, ext, now, requests, mutex, admits, rejected, rlast, nreq, cvars, lvars>>

\* the middleware function returns: the deferred m.mutex.Unlock()
Unlock(r) ==
    /\ rq[r].pc = "unlock"
    /\ mutex' = 0
    /\ rq' = [rq EXCEPT ![r] = IdleReq]
    /\ UNCHANGED <<svars, ext, now, requests, admits, rejected, rlast, nreq, cvars, lvars>>

RateNext ==
    \/ Tick
    \/ \E r \in Reqs, clientIP \in Clients : Arrive(r, clientIP)
    \/ \E r \in Reqs : RateLimit(r)
    \/ \E r \in Reqs : HandlerNext(r)
    \/ \E r \in Reqs : Unlock(r)

RateSpec == Init /\ [][RateNext]_vars

\* ------------------------------------------------------------------ cache
\* NewMemoryCache: max <= 0 stands for 1000 entries
NewMemoryCacheMax(max) == IF max <= 0 THEN 1000 ELSE max

Max == NewMemoryCacheMax(MaxEntries)

\* time.Now().After(e.expiration)
ExpiredNever(e, t) == FALSE

Expired(e, t) == t > e.expiration

\* len(c.items)
Size(items) == Cardinality({k \in Keys : items[k].present})

\* len(c.items) >= c.max
FullNever(items) == FALSE

Full(items) == Size(items) >= Max

\* the loop of Set that deletes the expired entries
Evict(items, t) ==
    [k \in Keys |-> IF items[k].present /\ Expired(items[k], t) THEN NoEntry ELSE items[k]]

\* MemoryCache.Set as a function of the map: the new map and whether the
\* insert was skipped
SetItems(items, key, value, t) ==
    LET swept == IF Full(items) THEN Evict(items, t) ELSE items
    IN  IF Full(items) /\ Full(swept)
        THEN [items |-> swept, skipped |-> TRUE]
        ELSE [items |-> [swept EXCEPT ![key] = [present |-> TRUE, value |-> value,
                                                  expiration |-> t + Ttl]],
              skipped |-> FALSE]

\* MemoryCache.Get as a function of the map
GetItem(items, key, t) ==
    IF items[key].present /\ ~Expired(items[key], t)
    THEN [found |-> TRUE, value |-> items[key].value]
    ELSE [found |-> FALSE, value |-> 0]

\* what a call of Set leaves in the cache variables
DoSet(key, value) ==
    LET r == SetItems(cache, key, value, now)
    IN  /\ cache' = r.items
        /\ cset' = IF r.skipped THEN cset
                   ELSE [cset EXCEPT ![key] = [done |-> TRUE, value |-> value, at |-> now]]
        /\ clast' = [op |-> "set", key |-> key, found |-> FALSE, value |-> 0,
                     skipped |-> r.skipped, t |-> 0]

\* what a call of Get leaves in the cache variables
DoGet(key) ==
    LET r == GetItem(cache, key, now)
    IN  /\ clast' = [op |-> "get", key |-> key, found |-> r.found, value |-> r.value,
                     skipped |-> FALSE, t |-> now]
        /\ UNCHANGED <<cache, cset>>

\* MemoryCache.Set under the write lock
Set(key, value) ==
    /\ DoSet(key, value)
    /\ UNCHANGED <<svars, ext, now, rvars, lvars>>

\* MemoryCache.Get under the read lock
Get(key) ==
    /\ DoGet(key)
    /\ UNCHANGED <<svars, ext, now, rvars, lvars>>

CacheNext ==
    \/ Tick
    \/ \E key \in Keys, value \in Values : Set(key, value)
    \/ \E key \in Keys : Get(key)

CacheSpec == Init /\ [][CacheNext]_vars

\* ------------------------------------------- product service: GetByID, List
\* service.GetByID: any error of the repository is "product not found"
ProductGet(w, p) ==
    /\ CanStart(w)
    /\ ncalls' = ncalls + 1
    /\ LET rec == [IdleWk EXCEPT !.op = "product_get", !.p = p]
       IN  \E fail \in BOOLEAN :
             IF fail THEN Return(w, Faulted(rec), ErrProductNotFound)
             ELSE IF ~GetByID(w, p).exists THEN Return(w, rec, ErrProductNotFound)
             ELSE Return(w, rec, Ok)
    /\ UNCHANGED <<products, orders, nextPid, hist, env>>

RECURSIVE ListValue(_, _)
\* the page of products and the total that repo.List returns, as a number:
\* one bit per product id that has a committed row
ListValue(prods, n) ==
    IF n = 0 THEN 0
    ELSE (IF prods[n].exists THEN 2 ^ (n - 1) ELSE 0) + ListValue(prods, n - 1)

\* service.List up to the cache lookup: a hit returns the cached page
List(key) ==
    /\ ls.pc = "idle"
    /\ nlist < MaxLists
    /\ nlist' = nlist + 1
    /\ DoGet(key)
    /\ ls' = IF GetItem(cache, key, now).found THEN IdleList
             ELSE [pc |-> "list_query", key |-> key, value |-> 0]
    /\ UNCHANGED <<svars, ext, now, rvars>>

\* service.List: repo.List reads the committed rows (or fails: the error is
\* returned and nothing is cached)
ListQuery ==
    /\ ls.pc = "list_query"
    /\ \E fail \in BOOLEAN :
          ls' = IF fail THEN IdleList
                ELSE [ls EXCEPT !.pc = "list_set", !.value = ListValue(products, MaxProducts)]
    /\ UNCHANGED <<svars, ext, now, rvars, cvars, nlist>>

\* service.List: the page is put in the cache and returned
ListSet ==
    /\ ls.pc = "list_set"
    /\ DoSet(ls.key, ls.value)
    /\ ls' = IdleList
    /\ UNCHANGED <<svars, ext, now, rvars, nlist>>

\* the operations that place orders, remove products and read the catalogue
CatalogNext ==
    \/ \E price \in 0..MaxPrice, stock \in -1..MaxStock : ProductCreate(price, stock)
    \/ \E w \in Workers, u \in Users, items \in CreateOrderInput : OrderCreate(w, u, items)
    \/ \E w \in Workers : ItemRead(w)
    \/ \E w \in Workers : ItemWrite(w)
    \/ \E w \in Workers : OrderWrite(w)
    \/ \E w \in Workers, p \in ProductIds : ProductDelete(w, p)
    \/ \E w \in Workers : DelPending(w)
    \/ \E w \in Workers : DelExec(w)
    \/ Tick
    \/ \E w \in Workers, p \in ProductIds : ProductGet(w, p)
    \/ \E key \in ListKeys : List(key)
    \/ ListQuery
    \/ ListSet

CatalogSpec == Init /\ [][CatalogNext]_vars

\* ------------------------------------------- order service: ListForUser
\* the rows of a query with their primary key (the position in the table)
Rows(ords) ==
    [i \in 1..Len(ords) |->
        [id |-> i, user |-> ords[i].user, status |-> ords[i].status,
         total |-> ords[i].total, items |-> ords[i].items]]

\* ORDER BY created_at DESC (rows are inserted in the order of created_at)
Desc(rows) == [i \in 1..Len(rows) |-> rows[Len(rows) + 1 - i]]

\* orderRepository.ListByUser: Preload("Items").Where("user_id = ?", userID)
ListByUserAll(ords, userID) == Desc(Rows(ords))

ListByUser(ords, userID) ==
    Desc(SelectSeq(Rows(ords), LAMBDA o : o.user = userID))

\* service.ListForUser: ListByUser inside Execute; an error comes back as it is
ListForUser(userID) ==
    /\ \E fail \in BOOLEAN :
         listed' = IF fail
                   THEN [user |-> userID, res |-> Execute(ErrInfra), orders |-> <<>>]
                   ELSE [user |-> userID, res |-> Execute(Ok),
                         orders |-> ListByUser(orders, userID)]
    /\ UNCHANGED <<svars, now, rvars, cvars, lvars, uvars, ivars>>

\* products, orders placed by several users, and their listings
OrdersNext ==
    \/ \E price \in 0..MaxPrice, stock \in -1..MaxStock : ProductCreate(price, stock)
    \/ \E w \in Workers, u \in Buyers, items \in CreateOrderInput : OrderCreate(w, u, items)
    \/ \E w \in Workers : ItemRead(w)
    \/ \E w \in Workers : ItemWrite(w)
    \/ \E w \in Workers : OrderWrite(w)
    \/ \E u \in Buyers : ListForUser(u)

OrdersSpec == Init /\ [][OrdersNext]_vars

\* ----------------------------------------- image service: UploadImages
\* "maximum 4 images": the literal 4 of UploadImages
ImageLimit == 4

\* productImageRepository.CountByProduct
CountByProduct(imgs, productID) == imgs[productID]

\* an upload starts on the lowest free caller (callers are interchangeable)
CanUpload(a) ==
    /\ up[a].pc = "idle"
    /\ nup < MaxUploads
    /\ \A b \in Callers : b < a => up[b].pc # "idle"

\* UploadImages up to the uploads: the two length checks, CountByProduct and
\* the check of the total; every failure returns before anything is stored
UploadImages(a, productID, files) ==
    /\ CanUpload(a)
    /\ nup' = nup + 1
    /\ \E fail \in BOOLEAN :
         IF \/ files = 0
            \/ files > ImageLimit
            \/ fail
            \/ CountByProduct(images, productID) + files > ImageLimit
         THEN up' = up
         ELSE up' = [up EXCEPT ![a] = [pc |-> "add_many", p |-> productID, files |-> files]]
    /\ UNCHANGED <<svars, now, rvars, cvars, lvars, listed, uvars, images>>

\* the uploads to the image host (a failed one is logged and skipped) and
\* imagesRepo.AddMany of the ones that succeeded
AddMany(a) ==
    /\ up[a].pc = "add_many"
    /\ up' = [up EXCEPT ![a] = IdleUpload]
    /\ \E uploaded \in 0..up[a].files, fail \in BOOLEAN :
         IF uploaded = 0 \/ fail
         THEN images' = images
         ELSE images' = [images EXCEPT ![up[a].p] = @ + uploaded]
    /\ UNCHANGED <<svars, now, rvars, cvars, lvars, listed, uvars, nup>>

ImageNext ==
    \/ \E a \in Callers, p \in ProductIds, files \in 0..MaxFiles : UploadImages(a, p, files)
    \/ \E a \in Callers : AddMany(a)

ImageSpec == Init /\ [][ImageNext]_vars

\* ------------------------------------------------------- auth service
\* userRepository.FindByEmail: the id of the row, 0 for none
FindByEmail(us, email) ==
    IF \E id \in UserIds : us[id].exists /\ us[id].email = email
    THEN CHOOSE id \in UserIds : us[id].exists /\ us[id].email = email
    ELSE 0

\* the role Register stores (an older Register took it from the request)
resolveRole(role) == IF role = RoleAdmin THEN RoleAdmin ELSE RoleUser

RegisterRole(role) == RoleUser

\* service.Register: validation (the email is free), then users.Create; the
\* unique index on email makes the insert fail when the email was taken
Register(email, role) ==
    /\ nextUid <= MaxUsers
    /\ LET call == [NoAuthCall EXCEPT !.op = "register", !.role = role]
       IN  \E fail \in BOOLEAN :
             IF fail
             THEN /\ ulast' = [call EXCEPT !.res = ErrInfra, !.fault = TRUE]
                  /\ UNCHANGED <<users, nextUid>>
             ELSE IF FindByEmail(users, email) # 0
             THEN /\ ulast' = [call EXCEPT !.res = ErrEmailAlreadyExists]
                  /\ UNCHANGED <<users, nextUid>>
             ELSE /\ users' = [users EXCEPT ![nextUid] =
                                 [exists |-> TRUE, email |-> email,
                                  role |-> RegisterRole(role)]]
                  /\ nextUid' = nextUid + 1
                  /\ ulast' = [call EXCEPT !.id = nextUid]
    /\ UNCHANGED <<svars, now, rvars, cvars, lvars, listed, pr, ivars>>

\* cfg.Admin.Email
AdminEmail == 1

\* Build: the admin seed of a starting server, when no user has the admin email
Seed ==
    /\ nextUid <= MaxUsers
    /\ FindByEmail(users, AdminEmail) = 0
    /\ LET call == [NoAuthCall EXCEPT !.op = "seed", !.role = RoleAdmin]
       IN  \/ /\ ulast' = [call EXCEPT !.res = ErrInfra, !.fault = TRUE]
              /\ UNCHANGED <<users, nextUid>>
           \/ /\ users' = [users EXCEPT ![nextUid] =
                              [exists |-> TRUE, email |-> AdminEmail, role |-> RoleAdmin]]
              /\ nextUid' = nextUid + 1
              /\ ulast' = [call EXCEPT !.id = nextUid]
    /\ UNCHANGED <<svars, now, rvars, cvars, lvars, listed, pr, ivars>>

\* RowsAffected of UPDATE users SET role = ? WHERE id = ?: the rows matched
RoleRowsChanged(us, id) ==
    IF us[id].exists /\ us[id].role # RoleAdmin THEN 1 ELSE 0

RoleRowsAffected(us, id) == IF us[id].exists THEN 1 ELSE 0

ErrRecordNotFound == "record not found"

\* service.PromoteToAdmin up to UpdateRole: FindByID and the two checks
PromoteToAdmin(a, userID) ==
    /\ pr[a].pc = "idle"
    /\ \A b \in Callers : b < a => pr[b].pc # "idle"
    /\ LET call == [NoAuthCall EXCEPT !.op = "promote", !.id = userID,
                                      !.prev = users[userID].role,
                                      !.at = "find_by_id"]
       IN  \E fail \in BOOLEAN :
             IF fail
             THEN /\ ulast' = [call EXCEPT !.res = ErrInfra, !.fault = TRUE]
                  /\ pr' = pr
             ELSE IF ~users[userID].exists
             THEN /\ ulast' = [call EXCEPT !.res = ErrUserNotFound, !.prev = ""]
                  /\ pr' = pr
             ELSE IF users[userID].role = RoleAdmin
             THEN /\ ulast' = call
                  /\ pr' = pr
             ELSE /\ pr' = [pr EXCEPT ![a] = [pc |-> "update_role", id |-> userID]]
                  /\ ulast' = ulast
    /\ UNCHANGED <<svars, now, rvars, cvars, lvars, listed, users, nextUid, ivars>>

\* service.PromoteToAdmin: users.UpdateRole(ctx, userID, domain.RoleAdmin)
UpdateRole(a) ==
    /\ pr[a].pc = "update_role"
    /\ pr' = [pr EXCEPT ![a] = IdlePromote]
    /\ LET userID == pr[a].id
           call == [NoAuthCall EXCEPT !.op = "promote", !.id = userID,
                                      !.prev = users[userID].role,
                                      !.at = "update_role"]
       IN  \E fail \in BOOLEAN :
             IF fail
             THEN /\ ulast' = [call EXCEPT !.res = ErrInfra, !.fault = TRUE]
                  /\ users' = users
             ELSE IF RoleRowsAffected(users, userID) = 0
             THEN /\ ulast' = [call EXCEPT !.res = ErrRecordNotFound]
                  /\ users' = users
             ELSE /\ users' = [users EXCEPT ![userID].role = RoleAdmin]
                  /\ ulast' = call
    /\ UNCHANGED <<svars, now, rvars, cvars, lvars, listed, nextUid, ivars>>

AuthNext ==
    \/ \E email \in Emails, role \in RequestRoles : Register(email, role)
    \/ Seed
    \/ \E a \in Callers, id \in UserIds : PromoteToAdmin(a, id)
    \/ \E a \in Callers : UpdateRole(a)

AuthSpec == Init /\ [][AuthNext]_vars

\* ---------------------------------------------------------------- handlers
StatusCreated == 201

StatusBadRequest == 400

StatusNotFound == 404

StatusInternalServerError == 500

\* the error a service call returned is a fmt.Errorf("...%w...") value around
\* its cause and not the cause itself: insufficient stock in order Create, a
\* failed pending-order check in product Delete
WrapsAll(call) == call.res # Ok

Wraps(call) ==
    \/ call.op = "order" /\ call.res = ErrInsufficientStock
    \/ call.op = "product_delete" /\ call.at = "del_pending" /\ call.res = ErrInfra

\* errors.Is(err, target)
ErrorsIs(call, target) == call.res = target

\* err == target
Equal(call, target) == call.res = target /\ ~Wraps(call)

\* OrderHandler.Create: the status answered for the result of service.Create
OrderHandlerCreate(call) ==
    IF call.res # Ok
    THEN IF ErrorsIs(call, ErrProductNotFound) THEN StatusNotFound
         ELSE IF ErrorsIs(call, ErrInsufficientStock) THEN StatusBadRequest
         ELSE StatusBadRequest
    ELSE StatusCreated

\* ProductHandler.Delete: the status answered for the result of service.Delete
ProductHandlerDelete(call) ==
    IF call.res # Ok
    THEN IF Equal(call, ErrProductNotFound) THEN StatusNotFound
         ELSE IF Equal(call, ErrProductHasPendingOrders) THEN StatusBadRequest
         ELSE StatusInternalServerError
    ELSE StatusOK

\* ------------------------------------------------------------ properties
RECURSIVE QtyOf(_, _)
\* the quantity a list of items asks of product p
QtyOf(items, p) ==
    IF items = <<>> THEN 0
    ELSE (IF Head(items).pid = p THEN Head(items).qty ELSE 0) + QtyOf(Tail(items), p)

RECURSIVE Sold(_, _)
\* the quantity of p in all persisted orders
Sold(ords, p) ==
    IF ords = <<>> THEN 0 ELSE QtyOf(Head(ords).items, p) + Sold(Tail(ords), p)

RECURSIVE ItemsValue(_)
\* the sum of unit price x quantity over a list of order items
ItemsValue(items) ==
    IF items = <<>> THEN 0
    ELSE Head(items).unitPrice * Head(items).qty + ItemsValue(Tail(items))

\* worker w takes a step of its call (the cancellation of its context is not
\* one) / returns from a call that was in progress
Steps(w) == [wk'[w] EXCEPT !.ctx = "live"] # [wk[w] EXCEPT !.ctx = "live"]

Returns(w) == wk[w].pc # "idle" /\ wk'[w].pc = "idle"

StoreUnchanged == products' = products /\ orders' = orders

\* C1: no oversell: as long as only order placement writes a product, the
\* quantities of the persisted orders for it never add up to more than the
\* stock it was created with.
NoOversell ==
    \A p \in ProductIds : ~written[p] => Sold(orders, p) <= stock0[p]

\* C2: atomicity on failure: no step of an order Create other than its
\* successful commit changes the committed products or orders; in particular
\* the step on which Create returns an error leaves both as they were, also
\* when earlier lines of the request had written stock in the transaction.
AtomicOnFailure ==
    [][(\E w \in Workers :
           /\ wk[w].op = "order" \/ wk'[w].op = "order"
           /\ Steps(w)
           /\ ~(Returns(w) /\ last'.res = Ok))
       => StoreUnchanged]_vars

\* a Create failed on a later line after an earlier line had written stock,
\* and the stock in the store is still the initial one
FailedAfterDecrement ==
    /\ last.op = "order"
    /\ last.res = ErrInsufficientStock
    /\ last.k >= 1
    /\ orders = <<>>
    /\ products[1].exists /\ products[1].stock = stock0[1] /\ ~written[1]


\* C3: success postcondition: the step on which Create returns an order
\* (the commit of its transaction) lowers the stock of every product by the
\* quantity the request asks of it (by nothing for a product not in the request), changes no other column,
\* and appends exactly one pending order of the placing user whose items are
\* the requested lines in request order at the products' prices, with the
\* total the sum of price x quantity.
CreatePostcondition ==
    [][\A w \in Workers :
          (wk[w].op = "order" /\ Returns(w) /\ last'.res = Ok) =>
             LET items == wk[w].items
                 o == orders'[Len(orders')]
             IN  /\ Len(orders') = Len(orders) + 1
                 /\ SubSeq(orders', 1, Len(orders)) = orders
                 /\ \A p \in ProductIds :
                       products'[p] = [products[p] EXCEPT !.stock = @ - QtyOf(items, p)]
                 /\ o.user = wk[w].user
                 /\ o.status = "pending"
                 /\ Len(o.items) = Len(items)
                 /\ \A j \in 1..Len(items) :
                       /\ o.items[j].pid = items[j].pid
                       /\ o.items[j].qty = items[j].qty
                       /\ o.items[j].unitPrice = products[items[j].pid].price
                 /\ o.total = ItemsValue(o.items)]_vars

\* an order for two different products was placed and took one unit of each
OrderPlaced ==
    /\ last.op = "order" /\ last.res = Ok /\ last.n = 2
    /\ Len(orders) = 1
    /\ Len(orders[1].items) = 2
    /\ orders[1].items[1].pid # orders[1].items[2].pid
    /\ \A p \in {1, 2} : products[p].exists /\ products[p].stock = stock0[p] - 1
    /\ orders[1].total = products[1].price + products[2].price

\* C4: same-product double line: when the second line of a request names the
\* product of the first line and the two quantities together exceed the stock
\* the first line read, the second line fails the call with the
\* insufficient-stock error (unless the store itself fails on that read), and
\* products and orders stay as they were.
DoubleLineFails ==
    [][\A w \in Workers :
          (/\ wk[w].pc = "item_read" /\ wk[w].idx = 2
           /\ wk[w].items[1].pid = wk[w].items[2].pid
           /\ wk[w].items[2].qty > 0
           /\ wk[w].tw[wk[w].items[1].pid].exists
           /\ wk[w].items[1].qty + wk[w].items[2].qty
                 > wk[w].tw[wk[w].items[1].pid].stock + wk[w].items[1].qty
           /\ Steps(w)
           /\ ~(Returns(w) /\ last'.fault))
          => (Returns(w) /\ last'.res = ErrInsufficientStock /\ StoreUnchanged)]_vars

\* the only product has its initial stock after a two-line request for it
\* failed on its second line
DoubleLineRejected ==
    /\ last.op = "order" /\ last.res = ErrInsufficientStock /\ ~last.fault
    /\ last.n = 2 /\ last.k = 1
    /\ nextPid = 2 /\ ncalls = 2
    /\ products[1].exists /\ products[1].stock = stock0[1] /\ stock0[1] >= 1
    /\ orders = <<>>

\* C5: every persisted order's total is the sum of unit price x quantity of
\* its items; the same holds of the running total of an order being placed,
\* whose staged unit prices are the prices of the rows its transaction read.
TotalIsSumOfItems ==
    /\ \A i \in 1..Len(orders) : orders[i].total = ItemsValue(orders[i].items)
    /\ \A w \in Workers :
          wk[w].op = "order" =>
             /\ wk[w].total = ItemsValue(wk[w].staged)
             /\ \A j \in 1..Len(wk[w].staged) :
                   wk[w].staged[j].unitPrice = wk[w].tw[wk[w].staged[j].pid].price

\* an order with two items of different unit prices is persisted
TwoPriceOrder ==
    \E i \in 1..Len(orders) :
        /\ Len(orders[i].items) = 2
        /\ orders[i].items[1].unitPrice # orders[i].items[2].unitPrice
        /\ orders[i].total = orders[i].items[1].unitPrice * orders[i].items[1].qty
                              + orders[i].items[2].unitPrice * orders[i].items[2].qty

\* C6: price capture: no step (a product Update, a later order, a product
\* Delete) changes the total of a persisted order or the unit price of one of
\* its items.
PriceCapture ==
    [][\A i \in 1..Len(orders) :
          /\ i <= Len(orders')
          /\ orders'[i].total = orders[i].total
          /\ Len(orders'[i].items) = Len(orders[i].items)
          /\ \A j \in 1..Len(orders[i].items) :
                orders'[i].items[j].unitPrice = orders[i].items[j].unitPrice]_vars

\* a product Update changed the price of a product after an order captured it
PriceChangedAfterOrder ==
    /\ last.op = "product_update" /\ last.res = Ok
    /\ \E i \in 1..Len(orders) : \E j \in 1..Len(orders[i].items) :
          /\ orders[i].items[j].pid = last.p
          /\ products[last.p].exists
          /\ products[last.p].price # orders[i].items[j].unitPrice

\* C7: pending-order guard: a Delete of a product that existed and was
\* referenced by a pending order when the call began returns the
\* has-pending-orders error (unless the store fails) and removes no row; a
\* product row is removed only by a Delete that is past both checks, the
\* pending-order check being entered only after the existence check passed.
PendingGuard ==
    [][/\ \A w \in Workers :
            (wk[w].op = "product_delete" /\ wk[w].guard /\ Steps(w)) =>
               /\ Returns(w)
               /\ last'.fault \/ last'.res = ErrProductHasPendingOrders
               /\ products' = products
       /\ \A p \in ProductIds :
            (products[p].exists /\ ~products'[p].exists) =>
               \E w \in Workers : wk[w].pc = "del_exec" /\ wk[w].p = p /\ Returns(w)
       /\ \A w \in Workers :
            /\ (wk'[w].pc = "del_exec" /\ Steps(w)) =>
                  (wk[w].pc = "del_pending" /\ ~PendingRef(orders, wk[w].p))
            /\ (wk'[w].pc = "del_pending" /\ Steps(w)) =>
                  (wk[w].pc = "idle" /\ products[wk'[w].p].exists)]_vars

\* a Delete was refused because of a pending order and the product is there
DeleteRefused ==
    /\ last.op = "product_delete" /\ last.guard /\ ~last.fault
    /\ last.res = ErrProductHasPendingOrders
    /\ products[last.p].exists
    /\ PendingRef(orders, last.p)

\* C8: no orphaned order items: every product that an item of a persisted
\* pending order references exists.
NoOrphanedItems ==
    \A i \in 1..Len(orders) :
        orders[i].status = "pending" =>
           \A j \in 1..Len(orders[i].items) : products[orders[i].items[j].pid].exists

\* C9: Delete succeeds exactly once: no product id is deleted successfully
\* twice, and a Delete (in which the store did not fail) of a product that was
\* created and that no pending order references returns success or
\* product-not-found, after which the product is gone and exactly one Delete
\* of it has returned success.
DeleteOnce ==
    /\ \A p \in ProductIds : deleted[p] <= 1
    /\ (/\ last.op = "product_delete" /\ ~last.fault
        /\ last.p < nextPid
        /\ ~PendingRef(orders, last.p))
       => /\ last.res \in {Ok, ErrProductNotFound}
          /\ deleted[last.p] = 1
          /\ ~products[last.p].exists

\* a Delete that raced with the successful one found no row to delete
SecondDeleteNotFound ==
    /\ last.op = "product_delete" /\ ~last.fault
    /\ last.res = ErrProductNotFound /\ last.at = "del_exec"
    /\ deleted[last.p] = 1

\* C10: empty cart: a Create called with zero line items returns the
\* validation error on the spot: it never calls Execute, no worker enters a
\* transaction for it, and products and orders are untouched.
EmptyCart ==
    [][(/\ ncalls' = ncalls + 1
        /\ \/ wk' = wk /\ last'.op = "order" /\ last'.n = 0
           \/ \E w \in Workers : Steps(w) /\ wk'[w].op = "order" /\ wk'[w].items = <<>>)
       => (/\ wk' = wk
           /\ last'.res = ErrEmptyOrder
           /\ ~last'.tx
           /\ StoreUnchanged)]_vars

\* an empty request was rejected while products exist
EmptyCartRejected ==
    /\ last.op = "order" /\ last.n = 0 /\ last.res = ErrEmptyOrder /\ ~last.tx
    /\ products[1].exists

\* C11: unit of work: a call returns from Execute with exactly the error its
\* work function returned, and then products and orders are as before the
\* step (everything written through the provider is dropped); products and
\* orders change through a transaction only on the step on which the work
\* function has returned no error, and then (unless the commit itself fails)
\* the rows written through the provider are installed and the call succeeds;
\* no other step of the call touches the committed rows.
UnitOfWork ==
    [][\A w \in Workers :
          (wk[w].tx /\ Steps(w)) =>
             IF Returns(w)
             THEN /\ last'.werr # Ok => (last'.res = last'.werr /\ StoreUnchanged)
                  /\ (last'.werr = Ok /\ ~last'.fault) =>
                        /\ last'.res = Ok
                        /\ Len(orders') = Len(orders) + 1
                        /\ \A p \in ProductIds :
                              products'[p] = IF wk[w].tw[p].exists THEN wk[w].tw[p]
                                             ELSE products[p]
                  /\ ~StoreUnchanged => (last'.werr = Ok /\ last'.res = Ok)
             ELSE StoreUnchanged]_vars

\* the work function failed on an unknown product after an earlier line had
\* written stock; that very error came back and the stock is the initial one
RolledBackWork ==
    /\ last.tx /\ ~last.fault
    /\ last.werr = ErrProductNotFound /\ last.res = ErrProductNotFound
    /\ last.k >= 1
    /\ orders = <<>>
    /\ products[1].exists /\ products[1].stock = stock0[1] /\ ~written[1]

\* C12: cancellation: once the context of a Create that is inside Execute is
\* done, the next step of that Create returns an error and leaves products
\* and orders as they were, wherever in the transaction it stands.
Cancellation ==
    [][\A w \in Workers :
          (wk[w].tx /\ wk[w].ctx = "done" /\ Steps(w)) =>
             (Returns(w) /\ last'.res # Ok /\ StoreUnchanged)]_vars

\* a Create was cancelled after it had written stock in its transaction: it
\* returned an error and the stock is the initial one
CancelledAfterUpdate ==
    /\ last.op = "order" /\ last.ctx = "done" /\ last.res # Ok
    /\ last.k >= 1
    /\ orders = <<>>
    /\ products[1].exists /\ products[1].stock = stock0[1] /\ ~written[1]

\* C13: every product row, committed or written in an open transaction, has
\* stock >= 0 and price > 0.
StockAndPriceInRange ==
    \A p \in ProductIds :
        /\ products[p].exists => (products[p].stock >= 0 /\ products[p].price > 0)
        /\ \A w \in Workers :
              wk[w].tw[p].exists => (wk[w].tw[p].stock >= 0 /\ wk[w].tw[p].price > 0)

\* a product is sold out (stock 0 after an order) and an Update was refused
\* by the validation
SoldOutAndValidated ==
    /\ last.op = "product_update" /\ last.res = ErrValidation
    /\ \E p \in ProductIds :
          products[p].exists /\ products[p].stock = 0 /\ Sold(orders, p) >= 1

\* C14: orders are write-once: no step removes or changes a persisted order
\* (status, total, user, items), and every order a step adds is pending.
WriteOnce ==
    [][/\ Len(orders') >= Len(orders)
       /\ \A i \in 1..Len(orders) : orders'[i] = orders[i]
       /\ \A i \in (Len(orders) + 1)..Len(orders') : orders'[i].status = "pending"]_vars

\* a pending order is still there, unchanged in its total, after the product
\* of one of its items was deleted
OrderOutlivesProduct ==
    /\ last.op = "product_delete" /\ last.res = Ok
    /\ \E i \in 1..Len(orders) :
          /\ orders[i].status = "pending"
          /\ orders[i].total = ItemsValue(orders[i].items)
          /\ \E j \in 1..Len(orders[i].items) : orders[i].items[j].pid = last.p

\* the number of admitted requests of client c whose timestamps lie strictly
\* within the last window
InWindow(c) ==
    Cardinality({i \in 1..Len(admits[c]) : admits[c][i] > now - Window})

\* request r leaves the part of the middleware that decides on it
Decided(r) == rq[r].pc = "lock" /\ rq'[r].pc # "lock"

\* C15: rate-limit ceiling: at every instant no client has more than Limit
\* admitted requests with timestamps strictly within the last window; a
\* request decided on when that number equals Limit is answered 429, is not
\* recorded and does not go on to the handler; a request goes on to the
\* handler only when that number was below Limit.
RateCeiling ==
    /\ [](\A c \in Clients : InWindow(c) <= Limit)
    /\ [][\A r \in Reqs :
             /\ (Decided(r) /\ InWindow(rq[r].client) = Limit) =>
                   /\ rlast'.code = 429 /\ rlast'.client = rq[r].client
                   /\ rq'[r].pc = "idle"
                   /\ admits' = admits
             /\ (rq[r].pc # "next" /\ rq'[r].pc = "next") =>
                   (Decided(r) /\ InWindow(rq[r].client) < Limit)]_vars

\* a request was rejected while its client had exactly Limit admitted requests
\* within the window
RejectedAtLimit ==
    /\ rlast.code = 429 /\ rlast.t = now
    /\ InWindow(rlast.client) = Limit
    /\ \A r \in Reqs : rq[r].pc \notin {"next", "unlock"}

\* C16: rate-limit recovery: the recorded timestamps of a client are always
\* the latest of its admitted ones (a rejection records nothing), and a
\* request is admitted exactly when fewer than Limit admitted timestamps of
\* its client are newer than now minus Window, so a rejected client is
\* admitted again as soon as the window has slid past enough of them.
RateRecovery ==
    /\ [](\A c \in Clients :
             /\ Len(requests[c]) <= Len(admits[c])
             /\ requests[c] = SubSeq(admits[c], Len(admits[c]) - Len(requests[c]) + 1,
                                     Len(admits[c])))
    /\ [][\A r \in Reqs :
             Decided(r) =>
                /\ rq'[r].pc = "next" <=> InWindow(rq[r].client) < Limit
                /\ rq'[r].pc # "next" =>
                      /\ rq'[r].pc = "idle" /\ rlast'.code = 429
                      /\ admits' = admits
                      /\ Len(requests'[rq[r].client]) <= Len(requests[rq[r].client])]_vars

\* a client that had been rejected is admitted at the first instant at which
\* its oldest admitted request is no longer within the window
AdmittedAgain ==
    /\ rlast.code = 200 /\ rlast.again
    /\ Len(admits[rlast.client]) = Limit + 1
    /\ rlast.t = admits[rlast.client][1] + Window

\* C17: the mutex of the rate limiter is held only around the access to its
\* map: no request is in the downstream handlers while it holds the mutex.
LockOnlyAroundMap ==
    \A r \in Reqs : rq[r].pc = "next" => mutex # r

\* the keys in the cache
Entries == {k \in Keys : cache[k].present}

\* a call of the cache (Set or Get) has just been made
CacheCall(op) == clast'.op = op /\ (clast' # clast \/ cache' # cache)

\* C18: cache bound: the cache never holds more than MaxEntries entries; a
\* Set that finds it at capacity removes every expired entry, and when none
\* is expired it changes nothing and inserts nothing.
CacheBound ==
    /\ [](Cardinality(Entries) <= MaxEntries)
    /\ [][(CacheCall("set") /\ Cardinality(Entries) >= MaxEntries) =>
             /\ \A k \in Entries :
                   (now > cache[k].expiration /\ k # clast'.key) => ~cache'[k].present
             /\ (\A k \in Entries : now <= cache[k].expiration) =>
                   (cache' = cache /\ cset' = cset /\ clast'.skipped)]_vars

\* a Set of a new key was skipped: the cache is full of entries none of which
\* is expired
SetSkippedWhenFull ==
    /\ clast.op = "set" /\ clast.skipped
    /\ ~cache[clast.key].present
    /\ Cardinality(Entries) = MaxEntries
    /\ \A k \in Entries : now <= cache[k].expiration

\* C19: cache time-to-live: Get never modifies the cache; it returns a value
\* only for a key stored by a Set that was not skipped, no more than Ttl
\* after the latest such Set, and the value is the one of that Set; for an
\* absent or expired key it returns not-found.
CacheTtl ==
    [][CacheCall("get") =>
          /\ cache' = cache /\ cset' = cset
          /\ clast'.found =>
                /\ cset[clast'.key].done
                /\ now - cset[clast'.key].at <= Ttl
                /\ clast'.value = cset[clast'.key].value
          /\ (~cache[clast'.key].present \/ now > cache[clast'.key].expiration) =>
                ~clast'.found]_vars

\* Get found a value exactly Ttl after it was stored, and a later Set of the
\* same key had been skipped in between or not made at all
HitAtTtl ==
    /\ clast.op = "get" /\ clast.found
    /\ clast.t = cset[clast.key].at + Ttl
    /\ clast.value = cset[clast.key].value

\* the row of product p as the connection of worker w sees it in the store
Row(w, p) == IF wk[w].tw[p].exists THEN wk[w].tw[p] ELSE products[p]

\* C20: guard freshness: whatever the product-list cache holds, a Delete of a
\* product that existed and was referenced by a committed pending order when
\* the call began is refused with the has-pending-orders error (unless the
\* store fails); the existence checks of Delete, GetByID and order placement
\* answer by the rows of the store alone; and no step of these operations
\* writes the cache.
GuardFreshness ==
    [][/\ \A w \in Workers :
            /\ (wk[w].op = "product_delete" /\ wk[w].guard /\ Steps(w)) =>
                  /\ Returns(w)
                  /\ last'.fault \/ last'.res = ErrProductHasPendingOrders
                  /\ products' = products
            /\ (wk[w].pc = "idle" /\ wk'[w].op = "product_delete") =>
                  products[wk'[w].p].exists
            /\ (wk[w].pc = "item_read" /\ Returns(w) /\ ~last'.fault
                   /\ last'.res = ErrProductNotFound) =>
                  ~Row(w, wk[w].items[wk[w].idx].pid).exists
            /\ (wk[w].pc = "item_read" /\ Steps(w) /\ ~Returns(w)) =>
                  Row(w, wk[w].items[wk[w].idx].pid).exists
       /\ (ncalls' = ncalls + 1 /\ wk' = wk /\ ~last'.fault
              /\ last'.op \in {"product_get", "product_delete"}) =>
             (last'.res = ErrProductNotFound <=> ~products[last'.p].exists)
       /\ (ncalls' # ncalls \/ \E w \in Workers : wk'[w] # wk[w]) =>
             (cache' = cache /\ cset' = cset)]_vars

\* a Delete was refused because of a committed pending order while the cache
\* held an unexpired product list from before the product was created
RefusedDespiteStaleList ==
    /\ last.op = "product_delete" /\ last.guard /\ ~last.fault
    /\ last.res = ErrProductHasPendingOrders
    /\ products[last.p].exists
    /\ cache[1].present /\ cache[1].value = 0 /\ now <= cache[1].expiration

\* C21: own orders only. A ListForUser(u) that succeeds returns exactly the
\* persisted orders whose placing user is u (every such order once, no other
\* order), each with the items stored for it; and the order a Create commits
\* is recorded under the user id that was passed to that Create.
OwnOrdersOnly ==
    [][/\ (listed' # listed /\ listed'.res = Ok) =>
            LET got == listed'.orders
                u == listed'.user
            IN  /\ \A i \in 1..Len(orders) :
                      orders[i].user = u <=> \E j \in 1..Len(got) : got[j].id = i
                /\ \A j \in 1..Len(got) :
                      /\ got[j].id \in 1..Len(orders)
                      /\ got[j].user = u
                      /\ got[j].items = orders[got[j].id].items
                      /\ got[j].total = orders[got[j].id].total
                      /\ \A k \in 1..Len(got) : got[k].id = got[j].id => k = j
       /\ \A w \in Workers :
             (wk[w].pc = "order_write" /\ Returns(w) /\ Len(orders') > Len(orders)) =>
                 /\ Len(orders') = Len(orders) + 1
                 /\ orders'[Len(orders')].user = wk[w].user]_vars

\* a user with an order of their own listed it while an older order of
\* another user was in the table
OthersOrderNotListed ==
    /\ listed.res = Ok
    /\ Len(listed.orders) >= 1
    /\ \E i \in 1..Len(orders) :
          /\ orders[i].user # listed.user
          /\ i < listed.orders[1].id

\* C22: image limit. After any sequence or interleaving of UploadImages calls
\* a product has at most 4 stored images; and a call that stores images had at
\* most 4 files and does not take the product's total above 4.
AtMostFourImages ==
    /\ [](\A p \in ProductIds : images[p] <= 4)
    /\ [][\A p \in ProductIds :
            images'[p] # images[p] =>
                /\ images'[p] - images[p] \in 1..4
                /\ images'[p] <= 4]_vars

\* C23: registration never creates an admin. Register stores every new user
\* with role user whatever role the request carries; a user gets the role
\* admin only in a step of PromoteToAdmin or of the admin seed; and no step
\* takes the role admin away from a user or removes a user.
AdminOnlyByPromotion ==
    [][\A id \in UserIds :
          /\ (ulast'.op = "register" /\ ~users[id].exists /\ users'[id].exists) =>
                 users'[id].role = "user"
          /\ ((~users[id].exists \/ users[id].role # "admin")
                 /\ users'[id].exists /\ users'[id].role = "admin") =>
                 \/ ~users[id].exists /\ ulast'.op = "seed" /\ ulast'.id = id
                 \/ users[id].exists /\ \E a \in Callers :
                        pr[a] = [pc |-> "update_role", id |-> id] /\ pr'[a].pc = "idle"
          /\ (users[id].exists /\ users[id].role = "admin") =>
                 (users'[id].exists /\ users'[id].role = "admin")
          /\ users[id].exists => users'[id].exists]_vars

\* a registration that asked for the role admin succeeded and its user has the
\* role user
RegisteredAsUser ==
    /\ ulast.op = "register" /\ ulast.res = Ok /\ ulast.role = "admin"
    /\ users[ulast.id].exists /\ users[ulast.id].role = "user"

\* C24: admin promotion is idempotent. A PromoteToAdmin for an existing user
\* returns success and leaves the user with role admin, whether the user was
\* an admin before or not and whatever other promotions overlap it; for an id
\* without a user it returns user-not-found and changes nothing; an admin
\* stays an admin. (Calls in which the store fails are excepted.)
PromoteIdempotent ==
    [][/\ \A a \in Callers :
            (pr[a].pc = "update_role" /\ pr'[a].pc = "idle" /\ ~ulast'.fault) =>
                /\ ulast'.op = "promote" /\ ulast'.id = pr[a].id
                /\ ulast'.res = Ok
                /\ users'[pr[a].id].exists /\ users'[pr[a].id].role = "admin"
       /\ (pr' = pr /\ ulast' # ulast /\ ulast'.op = "promote" /\ ~ulast'.fault) =>
            /\ users' = users
            /\ IF users[ulast'.id].exists
               THEN ulast'.res = Ok /\ users[ulast'.id].role = "admin"
               ELSE ulast'.res = ErrUserNotFound
       /\ \A id \in UserIds :
            (users[id].exists /\ users[id].role = "admin") =>
                (users'[id].exists /\ users'[id].role = "admin")]_vars

\* a promotion that overlapped another one returned success after its
\* UpdateRole met a user who was an admin already
PromotedTwice ==
    /\ ulast.op = "promote" /\ ulast.res = Ok /\ ~ulast.fault
    /\ ulast.at = "update_role" /\ ulast.prev = "admin"
    /\ users[ulast.id].role = "admin"

\* C25: handler status mapping. For every result service.Create can return,
\* the order handler answers 201 exactly when the service returned an order,
\* 404 for product-not-found and 400 for insufficient stock; for every result
\* service.Delete can return, the product handler answers 200 on success, 404
\* for product-not-found and 400 for product-has-pending-orders; and neither
\* answers a 2xx status for an error.
StatusMapping ==
    /\ last.op = "order" =>
          /\ OrderHandlerCreate(last) = 201 <=> last.res = Ok
          /\ last.res = ErrProductNotFound => OrderHandlerCreate(last) = 404
          /\ last.res = ErrInsufficientStock => OrderHandlerCreate(last) = 400
          /\ last.res # Ok => OrderHandlerCreate(last) \notin 200..299
    /\ last.op = "product_delete" =>
          /\ last.res = Ok => ProductHandlerDelete(last) = 200
          /\ last.res = ErrProductNotFound => ProductHandlerDelete(last) = 404
          /\ last.res = ErrProductHasPendingOrders => ProductHandlerDelete(last) = 400
          /\ last.res # Ok => ProductHandlerDelete(last) \notin 200..299

\* a Delete was refused for pending orders and answered 400
DeleteAnswered400 ==
    /\ last.op = "product_delete" /\ last.res = ErrProductHasPendingOrders
    /\ ProductHandlerDelete(last) = 400
    /\ \E i \in 1..Len(orders) : orders[i].status = "pending"

\* C26: infrastructure errors are propagated unchanged. A call in which the
\* store failed while order Create loaded a product, or while product Delete,
\* Update or GetByID loaded the product or Delete ran the pending-order check,
\* returned the infrastructure error, not product-not-found or another named
\* outcome.
InfraErrorsPropagate ==
    (/\ last.fault
     /\ \/ last.op = "order" /\ last.at = "item_read"
        \/ last.op \in {"product_delete", "product_update", "product_get"}
              /\ last.at = "idle"
        \/ last.op = "product_delete" /\ last.at = "del_pending")
    => last.res = ErrInfra

\* C27: validation precedes the transaction. No Create is inside Execute with
\* a request that has a line item of quantity <= 0; and a Create that returned
\* a validation failure (empty item list, quantity <= 0) had not called
\* Execute and had updated no product.
ValidationBeforeTransaction ==
    /\ \A w \in Workers :
          wk[w].tx => \A j \in 1..Len(wk[w].items) : wk[w].items[j].qty > 0
    /\ (last.op = "order" /\ last.res \in {ErrEmptyOrder, ErrQuantity}) =>
          (~last.tx /\ last.k = 0)

\* C28: first failing item decides. Create handles the line items in request
\* order: when it comes to item i, exactly the items before i are staged and
\* only their products are written. For item i it checks quantity > 0, then
\* that the product exists, then stock >= quantity; the first check that fails
\* ends the call with that error (insufficient stock names the item's product),
\* nothing of a later item having been read or written; otherwise the item's
\* product, and only it, is updated and the call moves to item i + 1. (A step
\* in which the store fails is excepted from the choice of the error.)
FirstFailingItem ==
    [][\A w \in Workers :
          /\ (wk[w].op = "order" /\ wk[w].pc = "item_read" /\ Steps(w)) =>
                LET rec == wk[w]
                    i == rec.idx
                    item == rec.items[i]
                    row == Row(w, item.pid)
                IN  /\ Len(rec.staged) = i - 1
                    /\ \A j \in 1..(i - 1) :
                          /\ rec.staged[j].pid = rec.items[j].pid
                          /\ rec.staged[j].qty = rec.items[j].qty
                    /\ \A p \in ProductIds :
                          rec.tw[p].exists => \E j \in 1..(i - 1) : rec.items[j].pid = p
                    /\ IF item.qty <= 0
                       THEN Returns(w) /\ last'.res = "quantity must be greater than zero"
                       ELSE IF Returns(w) /\ last'.fault THEN TRUE
                       ELSE IF ~row.exists
                       THEN Returns(w) /\ last'.res = "product not found"
                       ELSE IF row.stock < item.qty
                       THEN /\ Returns(w)
                            /\ last'.res = "insufficient stock"
                            /\ last'.p = item.pid
                       ELSE /\ ~Returns(w)
                            /\ wk'[w].pc = "item_write"
                            /\ wk'[w].idx = i
                            /\ wk'[w].tw = rec.tw
                    /\ Returns(w) => (StoreUnchanged /\ last'.k = i - 1)
          /\ (wk[w].op = "order" /\ wk[w].pc = "item_write" /\ Steps(w)
                /\ ~Returns(w)) =>
                LET rec == wk[w]
                    item == rec.items[rec.idx]
                IN  /\ wk'[w].idx = rec.idx + 1
                    /\ \A p \in ProductIds :
                          p # item.pid => wk'[w].tw[p] = rec.tw[p]
                    /\ wk'[w].tw[item.pid].exists
                    /\ StoreUnchanged]_vars

\* a two-line order failed at its second line for insufficient stock after
\* its first line had been written inside the transaction
SecondItemFailed ==
    /\ last.op = "order" /\ last.res = ErrInsufficientStock /\ ~last.fault
    /\ last.n = 2 /\ last.k = 1
    /\ last.p # 0

\* C29: no lost update between admin Update and order placement. The commit
\* of an order changes no column of a product other than its stock, which it
\* lowers by the ordered quantity; the write of a product Update sets the
\* fields it was given and leaves every other field as it is in the store.
NoLostUpdate ==
    [][\A w \in Workers :
          /\ (wk[w].op = "order" /\ Returns(w) /\ last'.res = Ok) =>
                \A p \in ProductIds :
                    /\ products'[p].exists = products[p].exists
                    /\ products'[p].price = products[p].price
                    /\ products'[p].stock = products[p].stock - QtyOf(wk[w].items, p)
          /\ (wk[w].op = "product_update" /\ Returns(w) /\ last'.res = Ok) =>
                LET p == wk[w].p
                    input == wk[w].input
                IN  /\ \A q \in ProductIds : q # p => products'[q] = products[q]
                    /\ products'[p].price =
                          IF input.price # Nil THEN input.price ELSE products[p].price
                    /\ products'[p].stock =
                          IF input.stock # Nil THEN input.stock ELSE products[p].stock]_vars

\* C30: per-client isolation of the rate limiter. The timestamps recorded for
\* a client are admitted requests of that client; the decision on a request
\* of client A is taken from A's own recorded timestamps inside the window
\* and from nothing else; and it changes neither the timestamps recorded for
\* another client B nor B's admissions and rejections.
ClientIsolation ==
    /\ [](\A c \in Clients : \A i \in 1..Len(requests[c]) :
             \E j \in 1..Len(admits[c]) : admits[c][j] = requests[c][i])
    /\ [][\A r \in Reqs :
             Decided(r) =>
                LET a == rq[r].client
                    own == {i \in 1..Len(requests[a]) : requests[a][i] > now - Window}
                IN  /\ rq'[r].pc = "next" <=> Cardinality(own) < Limit
                    /\ rlast'.client = a
                    /\ rlast'.code = IF Cardinality(own) < Limit THEN 200 ELSE 429
                    /\ \A b \in Clients \ {a} :
                          /\ requests'[b] = requests[b]
                          /\ admits'[b] = admits[b]
                          /\ rejected'[b] = rejected[b]]_vars

\* a request of one client was admitted while another client, already
\* rejected, had Limit admitted requests within the window
AdmittedBesideFullClient ==
    /\ rlast.code = 200 /\ rlast.t = now
    /\ Len(admits[rlast.client]) = 1
    /\ \E a \in Clients :
          /\ a # rlast.client
          /\ rejected[a]
          /\ InWindow(a) = Limit

====
